---------------------------- MODULE Spec2Model ----------------------------
(***************************************************************************)
(* A model of p8lua (src/p8lua.py): the one-way synchronisation of a       *)
(* companion .lua source file into the __lua__ region of a Pico-8 .p8      *)
(* cartridge, with its pre-processor (--#include, --#define, --#undefine,  *)
(* --#if, --#end), its comment stripping and its syntax normaliser.        *)
(*                                                                         *)
(* Texts are sequences of one-character strings, so that every regular     *)
(* expression and every slice of the source is computed character by       *)
(* character, as Python computes it.  The only line boundary the inputs    *)
(* contain is the newline.                                                 *)
(***************************************************************************)
EXTENDS Integers, Sequences, FiniteSets, TLC

(***************************************************************************)
(* Literals of the source.                                                 *)
(***************************************************************************)
NL == "\n"
TAB == "\t"

PREFIX_INCLUDE == <<"-", "-", "#", "i", "n", "c", "l", "u", "d", "e", " ">>
PREFIX_DEFINE == <<"-", "-", "#", "d", "e", "f", "i", "n", "e", " ">>
PREFIX_UNDEFINE == <<"-", "-", "#", "u", "n", "d", "e", "f", "i", "n", "e", " ">>
PREFIX_IF == <<"-", "-", "#", "i", "f", " ">>
PREFIX_END == <<"-", "-", "#", "e", "n", "d", " ">>

REMOVECOMMENTSSINGLE == <<"r", "e", "m", "o", "v", "e", "c", "o", "m", "m", "e", "n", "t", "s", "s", "i", "n", "g", "l", "e">>
REMOVECOMMENTS == <<"r", "e", "m", "o", "v", "e", "c", "o", "m", "m", "e", "n", "t", "s">>
PLAINLUA == <<"p", "l", "a", "i", "n", "l", "u", "a">>

LUA_MARKER == <<"\n", "_", "_", "l", "u", "a", "_", "_", "\n">>
GFX_MARKER == <<"\n", "_", "_", "g", "f", "x", "_", "_", "\n">>
LUA_EXT == <<".", "l", "u", "a">>
COMMENT_OPEN == <<"-", "-", "[", "[">>
COMMENT_CLOSE == <<"]", "]", "-", "-">>
DASHES == <<"-", "-">>
SLASHES == <<"/", "/">>
KW_IF == <<"i", "f">>
KW_THEN == <<"t", "h", "e", "n">>
KW_END == <<"e", "n", "d">>

(***************************************************************************)
(* Character classes of Python's re: \s and \w, and the two bracket        *)
(* classes of re_sub_update_operator / re_sub_not_equal.                   *)
(***************************************************************************)
WordChars ==
    {"a", "b", "c", "d", "e", "f", "g", "h", "i", "j", "k", "l", "m", "n", "o",
     "p", "q", "r", "s", "t", "u", "v", "w", "x", "y", "z", "A", "B", "C", "D",
     "E", "F", "G", "H", "I", "J", "K", "L", "M", "N", "O", "P", "Q", "R", "S",
     "T", "U", "V", "W", "X", "Y", "Z", "0", "1", "2", "3", "4", "5", "6", "7",
     "8", "9", "_"}

SpaceChars == {" ", "\t", "\n", "\r", "\f"}

LvalueChars == WordChars \cup {".", "[", "]", "/", "-", "*", "+"}

RvalueChars == WordChars \cup {"\"", "'"}

(***************************************************************************)
(* String primitives (1-based; a Python slice s[a:b] is SubSeq(s, a+1, b)).*)
(* A value that is used several times is passed as an argument rather than *)
(* bound by LET.                                                           *)
(***************************************************************************)
Min(S) == CHOOSE x \in S : \A y \in S : x <= y

Max(S) == CHOOSE x \in S : \A y \in S : x >= y

MinOrZero(S) == IF S = {} THEN 0 ELSE Min(S)

Range(f) == {f[k] : k \in DOMAIN f}

Take(s, n) == SubSeq(s, 1, n)

Drop(s, n) == SubSeq(s, n + 1, Len(s))

HasAt(s, i, p) ==
    /\ i >= 1
    /\ i + Len(p) - 1 <= Len(s)
    /\ \A k \in 1..Len(p) : s[i + k - 1] = p[k]

startswith(s, p) == HasAt(s, 1, p)

\* The positions >= from at which p occurs in s.
Occurrences(s, p, from) == {i \in from..(Len(s) + 1 - Len(p)) : HasAt(s, i, p)}

\* str.find, 1-based: the first occurrence at or after from, 0 when none.
find(s, p, from) == MinOrZero(Occurrences(s, p, from))

Contains(s, p) == Occurrences(s, p, 1) # {}

\* The last index of the maximal run of characters of class that starts at i
\* (i - 1 when s[i] is not in the class or i is past the end).
SpanEnd(s, i, class) ==
    Min({k \in i..Len(s) : s[k] \notin class} \cup {IF i > Len(s) THEN i ELSE Len(s) + 1}) - 1

RECURSIVE splitlines(_)
SplitAt(s, nl) ==
    IF nl = 0 THEN <<s>> ELSE <<Take(s, nl - 1)>> \o splitlines(Drop(s, nl))

\* str.splitlines: the lines without their terminators, no empty last line.
splitlines(s) == IF s = <<>> THEN <<>> ELSE SplitAt(s, find(s, <<NL>>, 1))

RECURSIVE replace(_, _, _)
ReplaceAt(s, old, new, i) ==
    IF i = 0 THEN s
    ELSE Take(s, i - 1) \o new \o replace(Drop(s, i - 1 + Len(old)), old, new)

\* str.replace(old, new): every non-overlapping occurrence, left to right.
replace(s, old, new) == ReplaceAt(s, old, new, find(s, old, 1))

(***************************************************************************)
(* Container Codec: parse_p8.                                              *)
(* re.findall of three groups: anything up to an opening marker, anything, *)
(* a closing marker and anything; flags MULTILINE|DOTALL.                  *)
(* With DOTALL every group is greedy across lines: group 1 ends at the     *)
(* last opening marker that still has a closing marker after it, group 2   *)
(* runs to the last closing marker, group 3 to the end of the text.        *)
(* result[0] raises IndexError when nothing matches.                       *)
(***************************************************************************)
ParseError == [ok |-> FALSE, head |-> <<>>, lua |-> <<>>, tail |-> <<>>]

\* Where group 1 may end: the last character of an opening marker.
HeadEnds(p8) == {i + Len(LUA_MARKER) - 1 : i \in Occurrences(p8, LUA_MARKER, 1)}

\* Where group 3 may start: the first character of a closing marker.
TailStarts(p8) == Occurrences(p8, GFX_MARKER, 1)

\* The ends of group 1 after which a closing marker still follows.
MatchingHeadEnds(p8) == {e \in HeadEnds(p8) : \E g \in TailStarts(p8) : g > e}

\* The three groups, group 1 ending at e and group 3 starting at g.
ParseGroups(p8, e, g) ==
    [ok |-> TRUE,
     head |-> Take(p8, e),
     lua |-> SubSeq(p8, e + 1, g - 1),
     tail |-> Drop(p8, g - 1)]

ParseWith(p8, ends) ==
    IF ends = {} THEN ParseError
    ELSE ParseGroups(p8, Max(ends), Max(TailStarts(p8)))

parse_p8(p8) == ParseWith(p8, MatchingHeadEnds(p8))

(***************************************************************************)
(* Syntax Normalizer: re_sub_update_operator and re_sub_not_equal.         *)
(* Both patterns are: a run of lvalue characters (group 1, greedy, at      *)
(* least one), white space (group 2), the two-character operator, white    *)
(* space (group 3), a run of rvalue characters (group 4, at least one).    *)
(* Group 1 is greedy and gives characters back: the longest run after      *)
(* which the rest still matches is taken.                                  *)
(***************************************************************************)
NoMatch == [ok |-> FALSE, start |-> 0, stop |-> 0, g1 |-> <<>>, g2 |-> <<>>, g3 |-> <<>>, g4 |-> <<>>]

\* With group 1 ending at e: the ends of group 2, of group 3 and of group 4.
Group2End(s, e) == SpanEnd(s, e + 1, SpaceChars)

Group3End(s, e) == SpanEnd(s, Group2End(s, e) + 3, SpaceChars)

Group4End(s, e) == SpanEnd(s, Group3End(s, e) + 1, RvalueChars)

\* Whether the rest of the pattern matches with group 1 ending at e.
OperatorTail(s, e, opeq) ==
    /\ HasAt(s, Group2End(s, e) + 1, opeq)
    /\ Group4End(s, e) > Group3End(s, e)

\* The ends of group 1, starting at p, with which the pattern matches.
OperatorEnds(s, p, opeq) ==
    {e \in p..SpanEnd(s, p, LvalueChars) : OperatorTail(s, e, opeq)}

OperatorGroups(s, p, e) ==
    [ok |-> TRUE, start |-> p, stop |-> Group4End(s, e),
     g1 |-> SubSeq(s, p, e),
     g2 |-> SubSeq(s, e + 1, Group2End(s, e)),
     g3 |-> SubSeq(s, Group2End(s, e) + 3, Group3End(s, e)),
     g4 |-> SubSeq(s, Group3End(s, e) + 1, Group4End(s, e))]

MatchWithEnds(s, p, ends) ==
    IF ends = {} THEN NoMatch ELSE OperatorGroups(s, p, Max(ends))

\* The match of the pattern that starts at p, if any.
MatchOperatorAt(s, p, opeq) == MatchWithEnds(s, p, OperatorEnds(s, p, opeq))

SearchWithStarts(s, opeq, starts) ==
    IF starts = {} THEN NoMatch ELSE MatchOperatorAt(s, Min(starts), opeq)

\* re.search from position pos: the leftmost match.
SearchOperator(s, pos, opeq) ==
    SearchWithStarts(s, opeq, {p \in pos..Len(s) : OperatorEnds(s, p, opeq) # {}})

RECURSIVE SubUpdateFrom(_, _, _)
SubUpdateMatch(s, pos, op, m) ==
    IF ~m.ok THEN SubSeq(s, pos, Len(s))
    ELSE SubSeq(s, pos, m.start - 1)
         \o m.g1 \o <<"=">> \o m.g1 \o <<" ", op, " ">> \o m.g4
         \o SubUpdateFrom(s, m.stop + 1, op)

SubUpdateFrom(s, pos, op) == SubUpdateMatch(s, pos, op, SearchOperator(s, pos, <<op, "=">>))

\* x op= y  becomes  x=x op y  (the white space of the original is dropped).
re_sub_update_operator(op, lua) == SubUpdateFrom(lua, 1, op)

RECURSIVE SubNotEqualFrom(_, _)
SubNotEqualMatch(s, pos, m) ==
    IF ~m.ok THEN SubSeq(s, pos, Len(s))
    ELSE SubSeq(s, pos, m.start - 1)
         \o m.g1 \o m.g2 \o <<"~", "=">> \o m.g3 \o m.g4
         \o SubNotEqualFrom(s, m.stop + 1)

SubNotEqualFrom(s, pos) == SubNotEqualMatch(s, pos, SearchOperator(s, pos, <<"!", "=">>))

\* x != y  becomes  x ~= y  (the white space of the original is kept).
re_sub_not_equal(lua) == SubNotEqualFrom(lua, 1)

(***************************************************************************)
(* get_if_condition: the depth-counting scan.  depth starts at -1; the     *)
(* first open parenthesis sets start; the scan stops at the first          *)
(* character after which depth is 0.  When it never is, stop keeps its     *)
(* initial value 0.  i, start and stop are the 0-based indices of Python.  *)
(***************************************************************************)
\* depth after the character c has been counted.
DepthAfter(c, depth) ==
    (IF c = "(" THEN (IF depth = -1 THEN 0 ELSE depth) + 1 ELSE depth)
    - (IF c = ")" THEN 1 ELSE 0)

\* start after the character c, at index i, has been looked at.
StartAfter(c, i, depth, start) == IF c = "(" /\ depth = -1 THEN i ELSE start

RECURSIVE ScanParens(_, _, _, _)
ScanParens(statement, i, depth, start) ==
    IF i >= Len(statement) THEN [start |-> start, stop |-> 0, found |-> FALSE]
    ELSE IF DepthAfter(statement[i + 1], depth) = 0
    THEN [start |-> StartAfter(statement[i + 1], i, depth, start), stop |-> i, found |-> TRUE]
    ELSE ScanParens(statement, i + 1, DepthAfter(statement[i + 1], depth),
                    StartAfter(statement[i + 1], i, depth, start))

\* statement[start+1:stop], statement[stop+1:]
SliceCondition(statement, r) ==
    [condition |-> SubSeq(statement, r.start + 2, r.stop),
     statement |-> SubSeq(statement, r.stop + 2, Len(statement))]

get_if_condition(statement) == SliceCondition(statement, ScanParens(statement, 0, -1, 0))

(***************************************************************************)
(* convert_if.  The pattern of re.findall is: a newline, white space       *)
(* (group 2, may span lines), then group 3: the word if, white space, an   *)
(* open parenthesis, and the rest of that line, which must hold a close    *)
(* parenthesis; then the newline ending that line.  Group 1 is the whole   *)
(* match.  Matches do not overlap: the closing newline of one match is not *)
(* available as the opening newline of the next.                           *)
(***************************************************************************)
\* For a match starting at the newline p: the end of group 2, the place of
\* the open parenthesis, the newline that ends the match (0 when none).
IfTabEnd(s, p) == SpanEnd(s, p + 1, SpaceChars)

IfParen(s, p) == SpanEnd(s, IfTabEnd(s, p) + 3, SpaceChars) + 1

IfEol(s, p) == find(s, <<NL>>, IfParen(s, p) + 1)

IsIfAt(s, p) ==
    /\ s[p] = NL
    /\ HasAt(s, IfTabEnd(s, p) + 1, KW_IF)
    /\ HasAt(s, IfParen(s, p), <<"(">>)
    /\ IfEol(s, p) # 0
    /\ \E k \in (IfParen(s, p) + 1)..(IfEol(s, p) - 1) : s[k] = ")"

\* The groups of the match at p: r[0] (all), r[1] (tab), r[2] (stmt).
IfGroups(s, p, tabEnd, eol) ==
    [stop |-> eol, all |-> SubSeq(s, p, eol), tab |-> SubSeq(s, p + 1, tabEnd),
     stmt |-> SubSeq(s, tabEnd + 1, eol - 1)]

MatchIfAt(s, p) == IfGroups(s, p, IfTabEnd(s, p), IfEol(s, p))

RECURSIVE FindAllIf(_, _)
FindAllWith(s, starts) ==
    IF starts = {} THEN <<>>
    ELSE <<MatchIfAt(s, Min(starts))>> \o FindAllIf(s, IfEol(s, Min(starts)) + 1)

FindAllIf(s, pos) == FindAllWith(s, {p \in pos..Len(s) : IsIfAt(s, p)})

\* The three-line block a match is rewritten to.
new_statement(tab, cond, stat) ==
    <<NL>> \o tab \o KW_IF \o <<" ">> \o cond \o <<" ">> \o KW_THEN \o <<NL>>
    \o tab \o <<TAB>> \o stat \o <<NL>>
    \o tab \o KW_END \o <<NL>>

ReplaceIf(lua, r, c) == replace(lua, r.all, new_statement(r.tab, c.condition, c.statement))

\* One iteration of the loop over the matches.
ConvertIfMatch(lua, r) ==
    IF ~Contains(r.all, KW_THEN) THEN ReplaceIf(lua, r, get_if_condition(r.stmt))
    ELSE lua

RECURSIVE ConvertIfLoop(_, _, _)
ConvertIfLoop(lua, result, k) ==
    IF k > Len(result) THEN lua
    ELSE ConvertIfLoop(ConvertIfMatch(lua, result[k]), result, k + 1)

convert_if(lua) == ConvertIfLoop(lua, FindAllIf(lua, 1), 1)

(***************************************************************************)
(* The rewrite of the double-slash comment marker: white space (at least   *)
(* one character, kept), two slashes (become two dashes), white space      *)
(* (kept).  The white space after one match is consumed by it.             *)
(***************************************************************************)
RECURSIVE SubSlashFrom(_, _)
\* w is the end of the white space before the slashes, w2 of that after.
SubSlashAt(s, pos, w, w2) ==
    SubSeq(s, pos, w) \o DASHES \o SubSeq(s, w + 3, w2) \o SubSlashFrom(s, w2 + 1)

SubSlashSpan(s, pos, w) == SubSlashAt(s, pos, w, SpanEnd(s, w + 3, SpaceChars))

SubSlashWith(s, pos, starts) ==
    IF starts = {} THEN SubSeq(s, pos, Len(s))
    ELSE SubSlashSpan(s, pos, SpanEnd(s, Min(starts), SpaceChars))

SubSlashFrom(s, pos) ==
    SubSlashWith(s, pos, {p \in pos..Len(s) :
                             /\ s[p] \in SpaceChars
                             /\ HasAt(s, SpanEnd(s, p, SpaceChars) + 1, SLASHES)})

re_sub_slash_comment(lua) == SubSlashFrom(lua, 1)

\* The five update operators in turn, the inequality, convert_if twice, the
\* comment marker.
convert_p8_syntax_to_lua(lua) ==
    re_sub_slash_comment(
      convert_if(
        convert_if(
          re_sub_not_equal(
            re_sub_update_operator("%",
              re_sub_update_operator("/",
                re_sub_update_operator("*",
                  re_sub_update_operator("-",
                    re_sub_update_operator("+", lua)))))))))

(***************************************************************************)
(* Conditional-Compilation Engine: process_lua_for_p8.                     *)
(* fs is the file system the include pass reads: a function from the names *)
(* of the readable files to their contents.  open raises for any other     *)
(* name.                                                                   *)
(***************************************************************************)
IncludeError == [ok |-> FALSE, text |-> <<>>]

RECURSIVE IncludeLoop(_, _, _, _)
\* One iteration of the first loop.
IncludeLine(lines, k, fs, result, line) ==
    IF startswith(line, PREFIX_INCLUDE)
    THEN IF (Drop(line, 11) \o LUA_EXT) \in DOMAIN fs
         THEN IncludeLoop(lines, k + 1, fs, result \o fs[Drop(line, 11) \o LUA_EXT] \o <<NL>>)
         ELSE IncludeError
    ELSE IncludeLoop(lines, k + 1, fs, result \o line \o <<NL>>)

\* The first pass: every --#include line becomes the file's content and a
\* newline; every other line is copied with a newline.
IncludeLoop(lines, k, fs, result) ==
    IF k > Len(lines) THEN [ok |-> TRUE, text |-> result]
    ELSE IncludeLine(lines, k, fs, result, lines[k])

include_pass(lua, fs) == IncludeLoop(splitlines(lua), 1, fs, <<>>)

\* Active only when every active tag is defined.
is_active_code_all(active, defined) ==
    IF Cardinality(active) = 0 THEN TRUE
    ELSE \A tag \in active : tag \in defined

\* True when the active set is empty or one active tag is defined; the
\* function falls off its end otherwise, and None is false in the if.
is_active_code(active, defined) ==
    IF Cardinality(active) = 0 THEN TRUE
    ELSE \E tag \in active : tag \in defined

IsDirective(line) ==
    \/ startswith(line, PREFIX_DEFINE)
    \/ startswith(line, PREFIX_UNDEFINE)
    \/ startswith(line, PREFIX_IF)
    \/ startswith(line, PREFIX_END)

\* re.match of: start, white space, two dashes, anything.
IsFullLineComment(line) == HasAt(line, SpanEnd(line, 1, SpaceChars) + 1, DASHES)

\* re.sub of: white space, two dashes, anything to the end, by nothing.
StripEolComment(line) ==
    Take(line, Min({p \in 1..Len(line) : HasAt(line, SpanEnd(line, p, SpaceChars) + 1, DASHES)}
                   \cup {Len(line) + 1}) - 1)

\* The labels the four directives name: the rest of the line.
define_label(line) == Drop(line, 10)

undefine_label(line) == Drop(line, 12)

if_label(line) == Drop(line, 6)

\* The label sliced one character early.
end_label_short(line) == Drop(line, 6)

end_label(line) == Drop(line, 7)

\* The line as it is appended: without its comment under removecommentssingle.
EmittedLine(defined, line) ==
    IF REMOVECOMMENTSSINGLE \in defined THEN StripEolComment(line) ELSE line

\* The iteration with the directives looked at only in active code.
directive_step_guarded(st, line) ==
    IF ~is_active_code(st.active, st.defined) THEN st
    ELSE IF startswith(line, PREFIX_DEFINE)
    THEN [st EXCEPT !.defined = @ \cup {define_label(line)}]
    ELSE IF startswith(line, PREFIX_UNDEFINE)
    THEN [st EXCEPT !.defined = @ \ {undefine_label(line)}]
    ELSE IF startswith(line, PREFIX_IF)
    THEN [st EXCEPT !.active = @ \cup {if_label(line)}]
    ELSE IF startswith(line, PREFIX_END)
    THEN [st EXCEPT !.active = @ \ {end_label(line)}]
    ELSE IF REMOVECOMMENTSSINGLE \in st.defined /\ IsFullLineComment(line)
    THEN st
    ELSE [st EXCEPT !.result = @ \o EmittedLine(st.defined, line) \o <<NL>>]

\* One iteration of the second loop.  st holds defined, active and result.
directive_step(st, line) ==
    IF startswith(line, PREFIX_DEFINE)
    THEN [st EXCEPT !.defined = @ \cup {define_label(line)}]
    ELSE IF startswith(line, PREFIX_UNDEFINE)
    THEN [st EXCEPT !.defined = @ \ {undefine_label(line)}]
    ELSE IF startswith(line, PREFIX_IF)
    THEN [st EXCEPT !.active = @ \cup {if_label(line)}]
    ELSE IF startswith(line, PREFIX_END)
    THEN [st EXCEPT !.active = @ \ {end_label(line)}]
    ELSE IF REMOVECOMMENTSSINGLE \in st.defined /\ IsFullLineComment(line)
    THEN st
    ELSE IF is_active_code(st.active, st.defined)
    THEN [st EXCEPT !.result = @ \o EmittedLine(st.defined, line) \o <<NL>>]
    ELSE st

RECURSIVE DirectiveLoop(_, _, _)
DirectiveLoop(lines, k, st) ==
    IF k > Len(lines) THEN st
    ELSE DirectiveLoop(lines, k + 1, directive_step(st, lines[k]))

EmptyLabels == [defined |-> {}, active |-> {}, result |-> <<>>]

directive_pass(lua) == DirectiveLoop(splitlines(lua), 1, EmptyLabels)

RECURSIVE SubMultilineFrom(_, _)
\* i is the place of the opening delimiter, j of the closing one (0: none).
SubMultilineAt(s, pos, i, j) ==
    IF j = 0 THEN SubSeq(s, pos, Len(s))
    ELSE SubSeq(s, pos, i - 1) \o <<NL>> \o SubMultilineFrom(s, j + 4)

SubMultilineOpen(s, pos, i) ==
    SubMultilineAt(s, pos, i, IF i = 0 THEN 0 ELSE find(s, COMMENT_CLOSE, i + 4))

\* re.sub of the multi-line comment, non-greedy and DOTALL, by a newline.
SubMultilineFrom(s, pos) == SubMultilineOpen(s, pos, find(s, COMMENT_OPEN, pos))

remove_multiline_comments(lua) == SubMultilineFrom(lua, 1)

\* What follows the second loop: the multi-line comments, then plainlua.
StripComments(defined, lua) ==
    IF REMOVECOMMENTS \in defined THEN remove_multiline_comments(lua) ELSE lua

ToPlainLua(defined, lua) ==
    IF PLAINLUA \in defined THEN convert_p8_syntax_to_lua(lua) ELSE lua

AfterDirectives(st) ==
    [ok |-> TRUE, text |-> ToPlainLua(st.defined, StripComments(st.defined, st.result))]

AfterIncludes(inc) ==
    IF inc.ok THEN AfterDirectives(directive_pass(inc.text)) ELSE IncludeError

process_lua_for_p8(lua, fs) == AfterIncludes(include_pass(lua, fs))

(***************************************************************************)
(* Bounds of the model and the inputs the specifications draw from.        *)
(***************************************************************************)
\* Notifications delivered to the watcher in one behaviour.
MaxEvents == 2

\* Lines the directive pass reads in one behaviour.
MaxLines == 5

\* Lines of a container text handed to parse_p8.
MaxParseLines == 4

\* Lines, after an empty first line, of a text handed to the normalizer.
MaxNormLines == 2

RECURSIVE JoinLines(_)
\* The text whose lines are ls, each ended by a newline.
JoinLines(ls) == IF ls = <<>> THEN <<>> ELSE Head(ls) \o <<NL>> \o JoinLines(Tail(ls))

LabelD == <<"d">>
LabelE == <<"e">>
LibName == <<"l", "i", "b">>
UtilName == <<"u", "t", "i", "l">>
MarkerLine == <<"_", "_", "l", "u", "a", "_", "_">>
GfxLine == <<"_", "_", "g", "f", "x", "_", "_">>

\* The texts the user saves in the companion .lua file.
SourceTexts ==
    {JoinLines(<< <<"x">> >>),
     JoinLines(<<PREFIX_INCLUDE \o LibName, <<"x">> >>),
     JoinLines(<<MarkerLine>>),
     JoinLines(<<PREFIX_DEFINE \o LabelD, PREFIX_IF \o LabelD, <<"p">>, PREFIX_END \o LabelD>>),
     JoinLines(<<PREFIX_IF \o LabelD, PREFIX_DEFINE \o PLAINLUA, PREFIX_END \o LabelD,
                 <<"a", "+", "=", "1">> >>)}

\* The cartridges on disk: well formed, without any marker, without the
\* closing marker.
Containers ==
    {JoinLines(<< <<"h">>, MarkerLine, <<"c">>, GfxLine, <<"t">> >>),
     JoinLines(<< <<"h">> >>),
     JoinLines(<< <<"h">>, MarkerLine, <<"c">> >>)}

\* The include files on disk: none, lib.lua, lib.lua including util.lua.
FileSystems ==
    {<<>>,
     (LibName \o LUA_EXT) :> JoinLines(<< <<"y">> >>),
     ((LibName \o LUA_EXT) :> JoinLines(<<PREFIX_INCLUDE \o UtilName>>))
        @@ ((UtilName \o LUA_EXT) :> JoinLines(<< <<"z">> >>))}

\* The lines the directive pass reads, and the labels they name.
PassLabels == {LabelD, LabelE, REMOVECOMMENTSSINGLE, PLAINLUA}

PlainLine == <<"x">>

CommentLine == <<"-", "-", " ", "n">>

CommentedLine == <<"x", " ", "-", "-", " ", "n">>

PassLines ==
    {PREFIX_DEFINE \o LabelD, PREFIX_UNDEFINE \o LabelD, PREFIX_IF \o LabelD,
     PREFIX_END \o LabelD, PREFIX_IF \o LabelE,
     PREFIX_DEFINE \o REMOVECOMMENTSSINGLE, PREFIX_DEFINE \o PLAINLUA,
     PlainLine, CommentLine, CommentedLine}

\* The sequences of at most n members of S.
SeqsUpTo(S, n) == UNION {[1..k -> S] : k \in 0..n}

\* The container texts handed to parse_p8: a header line, then lines that
\* are a marker, empty or other, with or without an unterminated last line.
ParseLineKinds == {MarkerLine, GfxLine, <<>>, <<"h">>}

ParseTexts ==
    {<<"h", NL>> \o JoinLines(ls) \o rest : ls \in SeqsUpTo(ParseLineKinds, MaxParseLines),
                                            rest \in {<<>>, <<"t">>}}

\* The lines of the texts handed to the normalizer.
NormLines ==
    {<<"x">>,
     <<"i", "f", " ", "(", "a", ")", " ", "x">>,
     <<TAB, "i", "f", " ", "(", "a", ")", " ", "x">>,
     <<"i", "f", " ", "(", "a", ")", " ", "i", "f", " ", "(", "b", ")", " ", "x">>,
     <<"i", "f", " ", "(", "a", ")", " ", "i", "f", " ", "(", "b", ")", " ",
       "i", "f", " ", "(", "c", ")", " ", "x">>,
     <<"i", "f", " ", "(", "(", "a", ")", " ", "x">>,
     <<"i", "f", " ", "(", "f", "(", "a", ")", ")", " ", "x">>,
     <<"i", "f", " ", "(", "a", ")", " ", "t", "h", "e", "n", " ", "x">>,
     <<"a", "+", "=", "1">>,
     <<"a", " ", "!", "=", " ", "b">>,
     <<"x", " ", "/", "/", " ", "n">>}

NormTexts == {<<NL>> \o JoinLines(ls) : ls \in SeqsUpTo(NormLines, MaxNormLines)}

NoFile == [exists |-> FALSE, data |-> <<>>]

File(data) == [exists |-> TRUE, data |-> data]

(***************************************************************************)
(* State.                                                                  *)
(***************************************************************************)
VARIABLES
    \* Sync Orchestrator: the files, the watcher, the locals of on_lua_changed
    luaFile, p8File, bakFile, fs, observer, elapsed, events,
    pc, lua_content, result, new_p8_content,
    \* what the current synchronisation has done, for the properties
    done, outcome, escaped, atStart, p8Before, p8Initial, clean,
    \* directive pass of process_lua_for_p8, one iteration at a time
    defined, active, out, line, before, nlines, nesting, reopened,
    \* convert_p8_syntax_to_lua and convert_if on one text
    n_pc, n_in, n_once, n_twice, ci_lua, ci_result, ci_k, ci_handed, ci_prev,
    \* parse_p8 on one text
    p_pc, p_in, p_out

syncVars == <<luaFile, p8File, bakFile, fs, observer, elapsed, events,
              pc, lua_content, result, new_p8_content,
              done, outcome, escaped, atStart, p8Before, p8Initial, clean>>

passVars == <<defined, active, out, line, before, nlines, nesting, reopened>>

normVars == <<n_pc, n_in, n_once, n_twice, ci_lua, ci_result, ci_k, ci_handed, ci_prev>>

parseVars == <<p_pc, p_in, p_out>>

vars == <<syncVars, passVars, normVars, parseVars>>

SyncIdle ==
    /\ luaFile = NoFile /\ p8File = <<>> /\ bakFile = NoFile /\ fs = <<>>
    /\ observer = "off" /\ elapsed = FALSE /\ events = 0
    /\ pc = "off" /\ lua_content = <<>> /\ result = ParseError /\ new_p8_content = <<>>
    /\ done = {} /\ outcome = "none" /\ escaped = FALSE
    /\ atStart = [lua |-> NoFile, p8 |-> <<>>, bak |-> NoFile]
    /\ p8Before = <<>> /\ p8Initial = <<>> /\ clean = TRUE

PassIdle ==
    /\ defined = {} /\ active = {} /\ out = <<>> /\ line = <<>>
    /\ before = EmptyLabels /\ nlines = -1 /\ nesting = <<>> /\ reopened = {}

NormIdle ==
    /\ n_pc = "off" /\ n_in = <<>> /\ n_once = <<>> /\ n_twice = <<>>
    /\ ci_lua = <<>> /\ ci_result = <<>> /\ ci_k = 0
    /\ ci_handed = FALSE /\ ci_prev = <<>>

ParseIdle == p_pc = "off" /\ p_in = <<>> /\ p_out = ParseError

(***************************************************************************)
(* Sync Orchestrator: Identify and on_lua_changed.                         *)
(***************************************************************************)
\* The statements of on_lua_changed, in the order of the source: read the
\* .lua file, pre-process, split the cartridge, copy it to .bak, write it.
\* The same statements with the copy after the write.
on_lua_changed_steps_write_first == <<"read", "process", "parse", "write", "backup">>

on_lua_changed_steps == <<"read", "process", "parse", "backup", "write">>

\* The step after step s; idle after the last one.
StepAfter(s) ==
    LET k == CHOOSE i \in 1..Len(on_lua_changed_steps) : on_lua_changed_steps[i] = s
    IN IF k = Len(on_lua_changed_steps) THEN "idle" ELSE on_lua_changed_steps[k + 1]

\* The reassembly without the region after the code.
join_without_tail(head, code, tail) == head \o code

join(head, code, tail) == head \o code \o tail

HasMarkerLine(code) == MarkerLine \in Range(splitlines(code))

Init ==
    /\ luaFile \in {File(t) : t \in SourceTexts}
    /\ p8File \in Containers
    /\ bakFile = NoFile
    /\ fs \in FileSystems
    /\ observer = "running"
    /\ elapsed = FALSE
    /\ events = 0
    /\ pc = "idle"
    /\ lua_content = <<>>
    /\ result = ParseError
    /\ new_p8_content = <<>>
    /\ done = {}
    /\ outcome = "none"
    /\ escaped = FALSE
    /\ atStart = [lua |-> luaFile, p8 |-> p8File, bak |-> bakFile]
    /\ p8Before = <<>>
    /\ p8Initial = p8File
    /\ clean = TRUE
    /\ PassIdle /\ NormIdle /\ ParseIdle

\* One second passes since Identify.__init__ set last_modified (which is
\* never set again).
Tick ==
    /\ ~elapsed
    /\ elapsed' = TRUE
    /\ UNCHANGED <<luaFile, p8File, bakFile, fs, observer, events, pc, lua_content,
                   result, new_p8_content, done, outcome, escaped, atStart,
                   p8Before, p8Initial, clean>>
    /\ UNCHANGED <<passVars, normVars, parseVars>>

\* The user saves text in the .lua file; on_modified (or on_moved) is called.
\* Within the first second the event is dropped; after it on_lua_changed
\* starts.
on_modified(text) ==
    /\ pc = "idle"
    /\ observer = "running"
    /\ events < MaxEvents
    /\ events' = events + 1
    /\ luaFile' = File(text)
    /\ atStart' = [lua |-> File(text), p8 |-> p8File, bak |-> bakFile]
    /\ \/ /\ ~elapsed
          /\ UNCHANGED <<pc, done, outcome>>
       \/ /\ elapsed
          /\ pc' = on_lua_changed_steps[1]
          /\ done' = {}
          /\ outcome' = "running"
    /\ UNCHANGED <<p8File, bakFile, fs, observer, elapsed, lua_content, result,
                   new_p8_content, escaped, p8Before, p8Initial, clean>>
    /\ UNCHANGED <<passVars, normVars, parseVars>>

\* A statement of on_lua_changed completed.
Completed(s) ==
    /\ pc' = StepAfter(s)
    /\ done' = done \cup {s}
    /\ outcome' = IF StepAfter(s) = "idle" THEN "ok" ELSE outcome
    /\ UNCHANGED <<observer, escaped>>

\* A statement raised.  Nothing in on_lua_changed or Identify catches: the
\* exception leaves the handler and ends the thread that dispatches events.
Raised(what) ==
    /\ pc' = "idle"
    /\ outcome' = what
    /\ escaped' = TRUE
    /\ observer' = "dead"
    /\ UNCHANGED done

ReadLua ==
    /\ pc = "read"
    /\ lua_content' = luaFile.data
    /\ Completed("read")
    /\ UNCHANGED <<luaFile, p8File, bakFile, fs, elapsed, events, result,
                   new_p8_content, atStart, p8Before, p8Initial, clean>>
    /\ UNCHANGED <<passVars, normVars, parseVars>>

ProcessLuaResult(r) ==
    \/ /\ r.ok
       /\ lua_content' = r.text
       /\ Completed("process")
    \/ /\ ~r.ok
       /\ Raised("failed")
       /\ UNCHANGED lua_content

ProcessLua ==
    /\ pc = "process"
    /\ ProcessLuaResult(process_lua_for_p8(lua_content, fs))
    /\ UNCHANGED <<luaFile, p8File, bakFile, fs, elapsed, events, result,
                   new_p8_content, atStart, p8Before, p8Initial, clean>>
    /\ UNCHANGED <<passVars, normVars, parseVars>>

ParseP8Result(r) ==
    \/ /\ r.ok
       /\ result' = r
       /\ new_p8_content' = join(r.head, lua_content, r.tail)
       /\ Completed("parse")
    \/ /\ ~r.ok
       /\ Raised("failed")
       /\ UNCHANGED <<result, new_p8_content>>

ParseP8 ==
    /\ pc = "parse"
    /\ ParseP8Result(parse_p8(p8File))
    /\ UNCHANGED <<luaFile, p8File, bakFile, fs, elapsed, events, lua_content,
                   atStart, p8Before, p8Initial, clean>>
    /\ UNCHANGED <<passVars, normVars, parseVars>>

\* copyfile(p8_fn, p8_fn + .bak)
Backup ==
    /\ pc = "backup"
    /\ bakFile' = File(p8File)
    /\ Completed("backup")
    /\ UNCHANGED <<luaFile, p8File, fs, elapsed, events, lua_content, result,
                   new_p8_content, atStart, p8Before, p8Initial, clean>>
    /\ UNCHANGED <<passVars, normVars, parseVars>>

WriteP8 ==
    /\ pc = "write"
    /\ p8File' = new_p8_content
    /\ p8Before' = p8File
    /\ clean' = (clean /\ ~HasMarkerLine(lua_content))
    /\ Completed("write")
    /\ UNCHANGED <<luaFile, bakFile, fs, elapsed, events, lua_content, result,
                   new_p8_content, atStart, p8Initial>>
    /\ UNCHANGED <<passVars, normVars, parseVars>>

\* The user deletes the .lua file; on_deleted calls create_lua_from_p8,
\* which writes the code region of the cartridge as the new .lua file.
create_lua_from_p8(r) ==
    \/ /\ r.ok
       /\ luaFile' = File(r.lua)
       /\ UNCHANGED <<pc, done, outcome, observer, escaped>>
    \/ /\ ~r.ok
       /\ luaFile' = NoFile
       /\ Raised("not regenerated")

on_deleted ==
    /\ pc = "idle"
    /\ observer = "running"
    /\ events < MaxEvents
    /\ luaFile.exists
    /\ events' = events + 1
    /\ atStart' = [lua |-> NoFile, p8 |-> p8File, bak |-> bakFile]
    /\ \/ /\ ~elapsed
          /\ luaFile' = NoFile
          /\ UNCHANGED <<pc, done, outcome, observer, escaped>>
       \/ /\ elapsed
          /\ create_lua_from_p8(parse_p8(p8File))
    /\ UNCHANGED <<p8File, bakFile, fs, elapsed, lua_content, result,
                   new_p8_content, p8Before, p8Initial, clean>>
    /\ UNCHANGED <<passVars, normVars, parseVars>>

Next ==
    \/ Tick
    \/ \E text \in SourceTexts : on_modified(text)
    \/ ReadLua
    \/ ProcessLua
    \/ ParseP8
    \/ Backup
    \/ WriteP8
    \/ on_deleted

Spec == Init /\ [][Next]_vars

(***************************************************************************)
(* Properties of the Sync Orchestrator, checked under Spec.                *)
(***************************************************************************)
HasDirectivePrefix(l) == IsDirective(l) \/ startswith(l, PREFIX_INCLUDE)

\* C2: directives are consumed and never emitted: once process_lua_for_p8
\* has returned, no line of its output starts with one of the five
\* directive prefixes.
C2_DirectivesNeverEmitted ==
    "process" \in done => \A l \in Range(splitlines(lua_content)) : ~HasDirectivePrefix(l)

SameFrame(now, first) == now.ok /\ now.head = first.head /\ now.tail = first.tail

SameTail(now, first) == now.ok /\ now.tail = first.tail

C4_ErrorAbortsOnlyThatSync ==
    outcome = "failed" =>
        /\ p8File = atStart.p8
        /\ bakFile = atStart.bak
        /\ luaFile = atStart.lua
        /\ ~escaped
        /\ observer = "running"

InitPass ==
    /\ defined = {}
    /\ active = {}
    /\ out = <<>>
    /\ line = <<>>
    /\ before = EmptyLabels
    /\ nlines = 0
    /\ nesting = [X \in PassLabels |-> 0]
    /\ reopened = {}
    /\ SyncIdle /\ NormIdle /\ ParseIdle

NestingAfter(l) ==
    [X \in PassLabels |->
        IF l = PREFIX_IF \o X THEN nesting[X] + 1
        ELSE IF l = PREFIX_END \o X /\ nesting[X] > 0 THEN nesting[X] - 1
        ELSE nesting[X]]

Suppressed(st) == st.active # {} /\ st.active \cap st.defined = {}

ReopenedAfter(l) ==
    {X \in PassLabels :
        \/ /\ l = PREFIX_DEFINE \o X
           /\ X \in active
           /\ active \cap defined = {}
        \/ /\ X \in reopened
           /\ l # PREFIX_END \o X
           /\ l # PREFIX_UNDEFINE \o X}

ReadLineWith(l, st) ==
    /\ defined' = st.defined
    /\ active' = st.active
    /\ out' = st.result
    /\ line' = l
    /\ before' = [defined |-> defined, active |-> active, result |-> out]
    /\ nlines' = nlines + 1
    /\ nesting' = NestingAfter(l)
    /\ reopened' = ReopenedAfter(l)

ReadLine(l) ==
    /\ nlines >= 0
    /\ nlines < MaxLines
    /\ ReadLineWith(l, directive_step([defined |-> defined, active |-> active, result |-> out], l))
    /\ UNCHANGED <<syncVars, normVars, parseVars>>

NextPass == \E l \in PassLines : ReadLine(l)

SpecPass == InitPass /\ [][NextPass]_vars

\* The last iteration read a line that is no directive / appended a line.
ReadPlain == nlines > 0 /\ ~IsDirective(line)

Appended == out # before.result

\* C1: while removecommentssingle is not defined, a line that is no
\* directive is appended to the output if and only if, when it is read, the
\* active set is empty or shares a label with the defined set.
C1_EmittedIffActive ==
    (ReadPlain /\ REMOVECOMMENTSSINGLE \notin before.defined) =>
        IF before.active = {} \/ before.active \cap before.defined # {}
        THEN out = before.result \o line \o <<NL>>
        ELSE out = before.result

\* A line emitted under two active labels of which one is defined.
C1_Witness ==
    /\ ReadPlain
    /\ REMOVECOMMENTSSINGLE \notin before.defined
    /\ Cardinality(before.active) = 2
    /\ Cardinality(before.active \cap before.defined) = 1
    /\ out = before.result \o line \o <<NL>>

\* What C7 says of the label sets: --#if X with X active changes nothing, one
\* --#end X removes X, --#end X with X not active changes neither set.
SetMembership ==
    \A X \in PassLabels :
        /\ (nlines > 0 /\ line = PREFIX_IF \o X /\ X \in before.active) =>
               (active = before.active /\ defined = before.defined)
        /\ (nlines > 0 /\ line = PREFIX_END \o X) => X \notin active
        /\ (nlines > 0 /\ line = PREFIX_END \o X /\ X \notin before.active) =>
               (active = before.active /\ defined = before.defined)

\* More --#if X than --#end X were read, X is not defined, no label is active.
ClosedByOneEnd == \E X \in PassLabels : nesting[X] >= 1 /\ X \notin defined /\ active = {}

\* C7 as stated: plain set membership, and once one --#end X has closed
\* several --#if X (X undefined, no label active) every following line that
\* is no directive is emitted.
C7_SetNotCounter ==
    /\ SetMembership
    /\ (ReadPlain /\ ClosedByOneEnd) => Appended

\* C7 amended: the same, except that a line that is wholly a comment is not
\* emitted while removecommentssingle is defined.
C7_SetNotCounterAmended ==
    /\ SetMembership
    /\ (ReadPlain /\ ClosedByOneEnd
           /\ ~(REMOVECOMMENTSSINGLE \in defined /\ IsFullLineComment(line))) => Appended

\* --#if d, --#if d, --#end d, then a line: the line is emitted.
C7_Witness ==
    /\ ReadPlain
    /\ nesting[LabelD] = 1
    /\ LabelD \notin defined
    /\ active = {}
    /\ out = before.result \o line \o <<NL>>

\* What C10 says of the label sets: a --#define or --#undefine line changes
\* the defined set whatever the active and defined sets were.
DirectivesAlwaysApply ==
    \A L \in PassLabels :
        /\ (nlines > 0 /\ line = PREFIX_DEFINE \o L) =>
               (defined = before.defined \cup {L} /\ active = before.active)
        /\ (nlines > 0 /\ line = PREFIX_UNDEFINE \o L) =>
               (defined = before.defined \ {L} /\ active = before.active)

\* C10 as stated: directives update the label sets in suppressed blocks too,
\* and after --#define X inside its own suppressed --#if X block the
\* following lines of the block are emitted.
C10_DirectivesInSuppressedBlocks ==
    /\ DirectivesAlwaysApply
    /\ (ReadPlain /\ reopened # {}) => Appended

\* C10 amended: the same, except that a line that is wholly a comment is not
\* emitted while removecommentssingle is defined.
C10_DirectivesInSuppressedBlocksAmended ==
    /\ DirectivesAlwaysApply
    /\ (ReadPlain /\ reopened # {}
           /\ ~(REMOVECOMMENTSSINGLE \in defined /\ IsFullLineComment(line))) => Appended

\* --#if d, --#define d, then a line: the line is emitted.
C10_Witness ==
    /\ ReadPlain
    /\ reopened = {LabelD}
    /\ before.active = {LabelD}
    /\ out = before.result \o line \o <<NL>>

(***************************************************************************)
(* parse_p8 applied to every text of ParseTexts.                           *)
(***************************************************************************)
InitParse ==
    /\ p_pc = "ready"
    /\ p_in \in ParseTexts
    /\ p_out = ParseError
    /\ SyncIdle /\ PassIdle /\ NormIdle

Parse ==
    /\ p_pc = "ready"
    /\ p_out' = parse_p8(p_in)
    /\ p_pc' = "done"
    /\ UNCHANGED <<p_in, syncVars, passVars, normVars>>

NextParse == Parse

SpecParse == InitParse /\ [][NextParse]_vars

\* Where a line of the text t starts.
LineStarts(t) == {i \in 1..Len(t) : i = 1 \/ t[i - 1] = NL}

\* Where a line equal to marker, ended by a newline, starts.
MarkerLineStarts(t, marker) == {i \in LineStarts(t) : HasAt(t, i, marker \o <<NL>>)}

\* The closing marker lines after the opening marker line that starts at i.
ClosingAfter(t, i) == {j \in MarkerLineStarts(t, GfxLine) : j > i}

\* What C5 lets parse_p8 return for the opening marker line that starts at i:
\* the code up to the next closing marker line, the newline before that
\* line counted in or not, or the rest of the text and an empty tail.
SplitAsStated(t, r, i, closing) ==
    /\ r.ok
    /\ IF closing = {}
       THEN r.lua = Drop(t, i + Len(MarkerLine)) /\ r.tail = <<>>
       ELSE \/ r.lua = SubSeq(t, i + Len(MarkerLine) + 1, Min(closing) - 1)
            \/ r.lua = SubSeq(t, i + Len(MarkerLine) + 1, Min(closing) - 2)

\* C5: for a text that holds an opening marker line, parse_p8 raises no
\* error and returns as code the text between an opening marker line and the
\* next closing marker line after it, or the rest of the text, with an empty
\* tail, when no closing marker line follows.
C5_SplitAtNextClosingMarker ==
    (p_pc = "done" /\ MarkerLineStarts(p_in, MarkerLine) # {}) =>
        \E i \in MarkerLineStarts(p_in, MarkerLine) :
            SplitAsStated(p_in, p_out, i, ClosingAfter(p_in, i))

(***************************************************************************)
(* convert_p8_syntax_to_lua applied to every text of NormTexts, and again  *)
(* to its own result; beside it one call of convert_if on the same text,   *)
(* one iteration of its loop at a time.  ci_handed tells whether the last  *)
(* iteration handed its match to get_if_condition; ci_prev is the text     *)
(* before that iteration.                                                  *)
(***************************************************************************)
InitNorm ==
    /\ n_pc = "ready"
    /\ n_in \in NormTexts
    /\ n_once = <<>>
    /\ n_twice = <<>>
    /\ ci_lua = <<>>
    /\ ci_result = <<>>
    /\ ci_k = 0
    /\ ci_handed = FALSE
    /\ ci_prev = <<>>
    /\ SyncIdle /\ PassIdle /\ ParseIdle

Normalize ==
    /\ n_pc = "ready"
    /\ n_once' = convert_p8_syntax_to_lua(n_in)
    /\ n_pc' = "once"
    /\ UNCHANGED <<n_in, n_twice, ci_lua, ci_result, ci_k, ci_handed, ci_prev>>
    /\ UNCHANGED <<syncVars, passVars, parseVars>>

NormalizeAgain ==
    /\ n_pc = "once"
    /\ n_twice' = convert_p8_syntax_to_lua(n_once)
    /\ n_pc' = "twice"
    /\ UNCHANGED <<n_in, n_once, ci_lua, ci_result, ci_k, ci_handed, ci_prev>>
    /\ UNCHANGED <<syncVars, passVars, parseVars>>

FindAll ==
    /\ n_pc # "off"
    /\ ci_k = 0
    /\ ci_result' = FindAllIf(n_in, 1)
    /\ ci_lua' = n_in
    /\ ci_k' = 1
    /\ UNCHANGED <<n_pc, n_in, n_once, n_twice, ci_handed, ci_prev>>
    /\ UNCHANGED <<syncVars, passVars, parseVars>>

ConvertOne ==
    /\ ci_k >= 1
    /\ ci_k <= Len(ci_result)
    /\ ci_handed' = ~Contains(ci_result[ci_k].all, KW_THEN)
    /\ ci_prev' = ci_lua
    /\ ci_lua' = ConvertIfMatch(ci_lua, ci_result[ci_k])
    /\ ci_k' = ci_k + 1
    /\ UNCHANGED <<n_pc, n_in, n_once, n_twice, ci_result>>
    /\ UNCHANGED <<syncVars, passVars, parseVars>>

NextNorm == Normalize \/ NormalizeAgain \/ FindAll \/ ConvertOne

SpecNorm == InitNorm /\ [][NextNorm]_vars

\* The loop of convert_if, run to its end, is convert_if.
ConvertIfStepsAgree ==
    (ci_k >= 1 /\ ci_k > Len(ci_result)) => ci_lua = convert_if(n_in)

\* C8: the normalizer applied to its own result changes nothing.
C8_NormalizerIdempotent == n_pc = "twice" => n_twice = n_once

\* The parentheses open after the first k characters of st.
RECURSIVE Depth(_, _)
Depth(st, k) ==
    IF k = 0 THEN 0
    ELSE Depth(st, k - 1) + (IF st[k] = "(" THEN 1 ELSE IF st[k] = ")" THEN -1 ELSE 0)

FirstParen(st) == Min({k \in 1..Len(st) : st[k] = "("})

\* The close parenthesis that matches the first open one, 0 when none does.
MatchingCloses(st) == {j \in (FirstParen(st) + 1)..Len(st) : st[j] = ")" /\ Depth(st, j) = 0}

MatchingClose(st) == MinOrZero(MatchingCloses(st))

\* The statement the last iteration of the loop of convert_if handed over.
Handed == ci_result[ci_k - 1].stmt

\* st = prefix, open parenthesis, condition, close parenthesis at mc, body.
SplitAtMatchingClose(st, c, mc) ==
    /\ c.condition = SubSeq(st, FirstParen(st) + 1, mc - 1)
    /\ c.statement = Drop(st, mc)

\* For a statement whose first parenthesis is closed get_if_condition returns
\* what stands inside the first parenthesis group and what follows it.
MatchedGroupIsSplit ==
    (ci_k >= 2 /\ ci_handed /\ MatchingClose(Handed) # 0) =>
        SplitAtMatchingClose(Handed, get_if_condition(Handed), MatchingClose(Handed))

\* C9: get_if_condition splits the statement handed to it at the first
\* parenthesis group, and a line whose first parenthesis is not closed is
\* left untouched by convert_if.
C9_ConditionIsFirstGroup ==
    (ci_k >= 2 /\ ci_handed) =>
        IF MatchingClose(Handed) # 0
        THEN SplitAtMatchingClose(Handed, get_if_condition(Handed), MatchingClose(Handed))
        ELSE ci_lua = ci_prev

=============================================================================
